---- MODULE Spec2Model ----
(***************************************************************************)
(* Macintosh GCR track codec (greaseweazle/codec/macintosh/mac_gcr.py):    *)
(* the Track Configuration (MacGCRTrackFormat), the Sector Table with its  *)
(* Interleave Map (MacGCR.__init__), the Track Encoder (raw_track), the    *)
(* Track Decoder (decode_raw) and the Readback Verifier (verify_track).    *)
(*                                                                         *)
(* Bytes are naturals 0..255, byte strings are sequences of bytes, a bit   *)
(* sequence is a byte string read big-endian, addressed by bit offset.     *)
(* An Optional[bytes] is a set: {} is None, {b} is the buffer b.           *)
(***************************************************************************)
EXTENDS Integers, Sequences, FiniteSets, TLC

(***************************************************************************)
(* Bounds of the model.                                                    *)
(***************************************************************************)
\* Largest sector count of a track format.
MaxSecs == 3
\* Largest interleave stride of a track format.
MaxInterleave == 2
\* Largest number of revolutions in one readback bit sequence.
MaxRevs == 2
\* Largest sector count and stride the Interleave Map construction is run on.
MaxMapSecs == 12
MaxMapStride == 9
\* Largest cylinder and head a single header is built for.
MaxCyl == 128
MaxHead == 8

(***************************************************************************)
(* Module constants of mac_gcr.py.                                         *)
(***************************************************************************)
self_sync_bytes == <<255, 63, 207, 243, 252, 255>>
sector_sync_bytes == <<213, 170, 150>>
data_sync_bytes == <<213, 170, 173>>
seclen == 524
enc_seclen == 703
format_byte == 34
\* b'-=[BAD SECTOR]=-'
bad_sector_marker == <<45, 61, 91, 66, 65, 68, 32, 83, 69, 67, 84, 79, 82, 93, 61, 45>>
bad_sector == [i \in 1..512 |-> bad_sector_marker[((i - 1) % 16) + 1]]
\* MacGCR.time_per_rev = 0.2 s, in microseconds (clocks are whole microseconds here,
\* for which int(0.2 / (clock * 1e-6)) = 200000 \div clock).
time_per_rev_us == 200000

(***************************************************************************)
(* Python helpers: bytes(n), seq * n, bitwise operators on bytes.          *)
(***************************************************************************)
zero_bytes(n) == [i \in 1..n |-> 0]

\* bytes([b] * n): empty when n <= 0.
fill(b, n) == [i \in 1..(IF n > 0 THEN n ELSE 0) |-> b]

RECURSIVE rep(_, _)
rep(s, n) == IF n <= 0 THEN <<>> ELSE s \o rep(s, n - 1)

RECURSIVE bxor(_, _)
bxor(a, b) == IF a = 0 /\ b = 0 THEN 0
              ELSE (((a % 2) + (b % 2)) % 2) + 2 * bxor(a \div 2, b \div 2)

RECURSIVE bor(_, _)
bor(a, b) == IF a = 0 /\ b = 0 THEN 0
             ELSE (IF a % 2 = 1 \/ b % 2 = 1 THEN 1 ELSE 0) + 2 * bor(a \div 2, b \div 2)

RECURSIVE xor_all(_, _)
xor_all(s, k) == IF k = 0 THEN 0 ELSE bxor(xor_all(s, k - 1), s[k])

(***************************************************************************)
(* bitarray: a bit sequence held as bytes, big-endian.                     *)
(***************************************************************************)
nbits(t) == 8 * Len(t)

\* The 8 bits at bit offset o, zero beyond the end (what tobytes() pads with).
byte_at(t, o) ==
    LET q == o \div 8
        r == o % 8
        hi == IF q + 1 <= Len(t) THEN t[q + 1] ELSE 0
        lo == IF r # 0 /\ q + 2 <= Len(t) THEN t[q + 2] ELSE 0
    IN  IF r = 0 THEN hi ELSE (hi % (2 ^ (8 - r))) * (2 ^ r) + (lo \div (2 ^ (8 - r)))

\* bits[o : o + 8n].tobytes(): a short tail is padded with zero bits to a whole byte.
slice_bytes(t, o, n) ==
    LET avail == IF o >= nbits(t) THEN 0
                 ELSE IF nbits(t) - o < 8 * n THEN nbits(t) - o ELSE 8 * n
        len == (avail + 7) \div 8
    IN  [k \in 1..len |-> byte_at(t, o + 8 * (k - 1))]

\* Whether the 3-byte pattern pat occurs at bit offset o.
match_at(t, o, pat) ==
    /\ byte_at(t, o) = pat[1]
    /\ byte_at(t, o + 8) = pat[2]
    /\ byte_at(t, o + 16) = pat[3]

\* The bit shifts r at which a byte b can hold the leading 8 - r bits of first.
shifts_of(b, first) == {r \in 0..7 : b % (2 ^ (8 - r)) = first \div (2 ^ r)}

\* The offsets of pat within bits[lo : hi], as offsets into t: every bit offset is
\* a candidate, those whose first byte cannot match are dropped byte by byte.
search_set(t, lo, hi, pat) ==
    LET top == IF hi < nbits(t) THEN hi ELSE nbits(t)
        cand == [b \in 0..255 |-> shifts_of(b, pat[1])]
    IN  UNION {{o \in {8 * q + r : r \in cand[t[q + 1]]} :
                    o >= lo /\ o <= top - 24 /\ match_at(t, o, pat)} :
               q \in (lo \div 8)..((top - 1) \div 8)}

RECURSIVE sorted_seq(_)
sorted_seq(S) ==
    IF S = {} THEN <<>>
    ELSE LET m == CHOOSE x \in S : \A y \in S : x <= y
         IN  <<m>> \o sorted_seq(S \ {m})

\* bits.itersearch(pat): every occurrence, in ascending bit-offset order.
itersearch(t, pat) == sorted_seq(search_set(t, 0, nbits(t), pat))

(***************************************************************************)
(* The byte codec primitives of greaseweazle.optimised (C extension, not   *)
(* part of the Python sources): the 6-and-2 GCR byte table and the sector  *)
(* checksum transform, as inverse pairs.                                   *)
(***************************************************************************)
mac_gcr_table ==
    <<150, 151, 154, 155, 157, 158, 159, 166, 167, 171, 172, 173, 174, 175, 178, 179,
      180, 181, 182, 183, 185, 186, 187, 188, 189, 190, 191, 203, 205, 206, 207, 211,
      214, 215, 217, 218, 219, 220, 221, 222, 223, 229, 230, 231, 233, 234, 235, 236,
      237, 238, 239, 242, 243, 244, 245, 246, 247, 249, 250, 251, 252, 253, 254, 255>>

mac_gcr_inverse ==
    [b \in 0..255 |-> IF \E i \in 1..64 : mac_gcr_table[i] = b
                      THEN (CHOOSE i \in 1..64 : mac_gcr_table[i] = b) - 1
                      ELSE 255]

\* optimised.encode_mac_gcr: one disk byte per 6-bit value.
encode_mac_gcr(s) == [i \in 1..Len(s) |-> mac_gcr_table[(s[i] % 64) + 1]]

\* optimised.decode_mac_gcr: the 6-bit value of each disk byte (255: not a GCR byte).
decode_mac_gcr(s) == [i \in 1..Len(s) |-> mac_gcr_inverse[s[i]]]

\* Sum modulo 256 of data[i + 3k] for k in lo..hi (halving, to keep the evaluation shallow).
RECURSIVE class_sum(_, _, _, _)
class_sum(data, i, lo, hi) ==
    IF lo > hi THEN 0
    ELSE IF lo = hi THEN (IF i + 3 * lo <= Len(data) THEN data[i + 3 * lo] ELSE 0)
    ELSE LET mid == (lo + hi) \div 2
         IN  (class_sum(data, i, lo, mid) + class_sum(data, i, mid + 1, hi)) % 256

\* The three checksum bytes of a sector buffer.
sector_sums(data) ==
    LET top == Len(data) \div 3
    IN  <<class_sum(data, 1, 0, top), class_sum(data, 2, 0, top), class_sum(data, 3, 0, top)>>

\* Three bytes as four 6-bit values: the top two bits of each, then the low six of each.
split_6and2(b, r) ==
    IF r = 0 THEN (b[1] \div 64) * 16 + (b[2] \div 64) * 4 + (b[3] \div 64)
    ELSE b[r] % 64

\* optimised.encode_mac_sector: 524 bytes -> 699 data values + 4 checksum values.
encode_mac_sector(data) ==
    LET sums == sector_sums(data)
        at(i) == IF i <= Len(data) THEN data[i] ELSE 0
    IN  [j \in 1..enc_seclen |->
            IF j > enc_seclen - 4 THEN split_6and2(sums, j - (enc_seclen - 3))
            ELSE LET g == (j - 1) \div 4
                 IN  split_6and2(<<at(3 * g + 1), at(3 * g + 2), at(3 * g + 3)>>, (j - 1) % 4)]

\* Byte k (0..2) of the group of four 6-bit values starting at nib[base].
join_6and2(nib, base, k) ==
    (((nib[base] % 64) \div (4 ^ (2 - k))) % 4) * 64 + (nib[base + 1 + k] % 64)

\* optimised.decode_mac_sector: (sector, csum), csum = 0 iff the checksum matches.
decode_mac_sector(nib) ==
    LET data == [i \in 1..seclen |-> join_6and2(nib, 4 * ((i - 1) \div 3) + 1, (i - 1) % 3)]
        sums == sector_sums(data)
        base == enc_seclen - 3
        diff(k) == (sums[k + 1] + 256 - join_6and2(nib, base, k)) % 256
    IN  [sec |-> data, csum |-> diff(0) + diff(1) + diff(2)]

(***************************************************************************)
(* MacGCRTrackFormat: the Track Configuration.                             *)
(***************************************************************************)
\* MacGCRTrackFormat.__init__
MacGCRTrackFormat == [secs |-> {}, clock |-> {}, interleave |-> 1, finalised |-> FALSE]

\* A configuration as add_param('secs'), add_param('clock'), add_param('interleave')
\* and finalise() leave it. The clock is in whole microseconds.
format_of(secs, clock, interleave) ==
    [secs |-> {secs}, clock |-> {clock}, interleave |-> interleave, finalised |-> TRUE]

(***************************************************************************)
(* MacGCR: the Sector Table.                                               *)
(***************************************************************************)
\* The inner while loop of __init__: the next position whose entry is -1.
RECURSIVE next_free(_, _, _)
next_free(sec_map, pos, nsec) ==
    IF sec_map[pos + 1] # -1 THEN next_free(sec_map, (pos + 1) % nsec, nsec) ELSE pos

\* The for loop of __init__ from iteration i on.
RECURSIVE place_from(_, _, _, _, _)
place_from(sec_map, pos, i, nsec, interleave) ==
    IF i >= nsec THEN sec_map
    ELSE LET p == next_free(sec_map, pos, nsec)
         IN  place_from([sec_map EXCEPT ![p + 1] = i], (p + interleave) % nsec,
                        i + 1, nsec, interleave)

\* The Interleave Map: physical position (1-based here) -> logical sector id.
make_sec_map(nsec, interleave) ==
    place_from([p \in 1..nsec |-> -1], 0, 0, nsec, interleave)

\* MacGCR.__init__ (config.secs is set).
MacGCR(cyl, head, config) ==
    LET nsec == CHOOSE n \in config.secs : TRUE
    IN  [cyl |-> cyl, head |-> head, config |-> config, nsec |-> nsec,
         clock |-> config.clock,
         sector |-> [s \in 1..nsec |-> {}],
         sec_map |-> make_sec_map(nsec, config.interleave)]

\* MacGCR.exists / has_sec (sec_id is 0-based, in range).
exists(T, sec_id) == T.sector[sec_id + 1] # {}

\* MacGCR.has_sec
has_sec(T, sec_id) == T.sector[sec_id + 1] # {}

\* MacGCR.nr_missing
nr_missing(T) == Cardinality({s \in 1..T.nsec : T.sector[s] = {}})

\* The buffer of a present sector.
buffer_of(T, sec_id) == CHOOSE b \in T.sector[sec_id + 1] : TRUE

\* Mutation: set_img_track without the zero padding of a short image (Python slices
\* past the end are short or empty).
set_img_track_no_pad(T, tdat) ==
    [T EXCEPT !.sector =
        [s \in 1..T.nsec |->
            {zero_bytes(12) \o SubSeq(tdat, IF (s - 1) * 512 < Len(tdat)
                                               THEN (s - 1) * 512 + 1 ELSE Len(tdat) + 1,
                                      IF s * 512 < Len(tdat) THEN s * 512 ELSE Len(tdat))}]]

\* MacGCR.set_img_track: the table after the import.
set_img_track(T, tdat) ==
    LET totsize == T.nsec * 512
        padded == IF Len(tdat) < totsize THEN tdat \o zero_bytes(totsize - Len(tdat))
                  ELSE tdat
    IN  [T EXCEPT !.sector =
            [s \in 1..T.nsec |->
                {zero_bytes(12) \o SubSeq(padded, (s - 1) * 512 + 1, s * 512)}]]

\* MacGCR.set_img_track: the value it returns.
set_img_track_ret(T, tdat) == T.nsec * 512

\* Mutation: get_img_track emitting the first 512 bytes of a buffer, tag included.
RECURSIVE get_img_from_with_tag(_, _)
get_img_from_with_tag(T, s) ==
    IF s > T.nsec THEN <<>>
    ELSE (IF T.sector[s] = {} THEN bad_sector
          ELSE SubSeq(buffer_of(T, s - 1), 1, 512))
         \o get_img_from_with_tag(T, s + 1)

\* MacGCR.get_img_track: sec[12:] of every slot, bad_sector for a slot that is None.
RECURSIVE get_img_from(_, _)
get_img_from(T, s) ==
    IF s > T.nsec THEN <<>>
    ELSE (IF T.sector[s] = {} THEN bad_sector
          ELSE LET sec == buffer_of(T, s - 1) IN SubSeq(sec, 13, Len(sec)))
         \o get_img_from(T, s + 1)

get_img_track(T) == get_img_from(T, 1)

(***************************************************************************)
(* MacGCR.raw_track: the Track Encoder.                                    *)
(***************************************************************************)
\* Mutation: the checksum byte leaves the format byte out of the XOR.
header_bytes_short_sum(cyl, head, sec_id) ==
    LET side == bor(head * 32, cyl \div 64)
        hdr == <<cyl % 64, sec_id, side, 34>>
    IN  hdr \o <<xor_all(hdr, 3)>>

\* The header bytes of a sector frame, with their XOR checksum appended.
header_bytes(cyl, head, sec_id) ==
    LET side == bor(head * 32, cyl \div 64)
        hdr == <<cyl % 64, sec_id, side, 34>>
    IN  hdr \o <<xor_all(hdr, 4)>>

\* Mutation: no frame is emitted for a sector that is None.
sector_frame_skip_missing(T, sec_id) ==
    IF T.sector[sec_id + 1] = {} THEN <<>>
    ELSE rep(self_sync_bytes, 6)
         \o sector_sync_bytes
         \o encode_mac_gcr(header_bytes(T.cyl, T.head, sec_id))
         \o <<222, 170, 255, 255>>
         \o self_sync_bytes
         \o data_sync_bytes
         \o encode_mac_gcr(<<sec_id>>)
         \o encode_mac_gcr(encode_mac_sector(buffer_of(T, sec_id)))
         \o <<222, 170, 255>>

\* Mutation: the frame built with a truth test of the buffer's bytes in place of
\* 'is None', so that an all-zero buffer is taken for a missing sector.
sector_frame_falsy(T, sec_id) ==
    LET sector == T.sector[sec_id + 1]
        data == IF sector = {} \/ \A i \in 1..Len(buffer_of(T, sec_id)) : buffer_of(T, sec_id)[i] = 0
                THEN zero_bytes(12) \o bad_sector
                ELSE buffer_of(T, sec_id)
    IN  rep(self_sync_bytes, 6)
        \o sector_sync_bytes
        \o encode_mac_gcr(header_bytes(T.cyl, T.head, sec_id))
        \o <<222, 170, 255, 255>>
        \o self_sync_bytes
        \o data_sync_bytes
        \o encode_mac_gcr(<<sec_id>>)
        \o encode_mac_gcr(encode_mac_sector(data))
        \o <<222, 170, 255>>

\* One iteration of the loop over sec_map: the frame of sector sec_id.
sector_frame(T, sec_id) ==
    LET sector == T.sector[sec_id + 1]
        data == IF sector = {} THEN zero_bytes(12) \o bad_sector
                ELSE buffer_of(T, sec_id)
    IN  rep(self_sync_bytes, 6)
        \o sector_sync_bytes
        \o encode_mac_gcr(header_bytes(T.cyl, T.head, sec_id))
        \o <<222, 170, 255, 255>>
        \o self_sync_bytes
        \o data_sync_bytes
        \o encode_mac_gcr(<<sec_id>>)
        \o encode_mac_gcr(encode_mac_sector(data))
        \o <<222, 170, 255>>

RECURSIVE frames_from(_, _)
frames_from(T, nr) ==
    IF nr > T.nsec THEN <<>>
    ELSE sector_frame(T, T.sec_map[nr]) \o frames_from(T, nr + 1)

\* int(time_per_rev / clock) & ~31
nominal_bits(clock) == ((time_per_rev_us \div clock) \div 32) * 32

\* The bytes t handed to MasterTrack(bits = t).
raw_track(T) ==
    LET t == fill(150, 64) \o rep(self_sync_bytes, 20)
             \o frames_from(T, 1)
             \o <<255, 255, 255, 255>>
        tlen == nominal_bits(CHOOSE c \in T.clock : TRUE)
    IN  t \o fill(150, (tlen \div 8) - Len(t))

\* MacGCR.verify_track: the flux argument is accepted and not read.
verify_track(T, flux_arg) ==
    LET readback_track == MacGCR(T.cyl, T.head, T.config)
    IN  nr_missing(readback_track) = 0 /\ T.sector = readback_track.sector

(***************************************************************************)
(* MacGCR.decode_raw: the Track Decoder.                                   *)
(***************************************************************************)
\* Mutation: add without its assert, the slot is assigned whatever it holds.
add_overwrite(T, sec_id, data) ==
    IF sec_id >= T.nsec THEN [T |-> T, err |-> "IndexError"]
    ELSE [T |-> [T EXCEPT !.sector[sec_id + 1] = {data}], err |-> "none"]

\* Mutation: add returning silently when the slot is populated.
add_silent(T, sec_id, data) ==
    IF sec_id >= T.nsec THEN [T |-> T, err |-> "IndexError"]
    ELSE IF exists(T, sec_id) THEN [T |-> T, err |-> "none"]
    ELSE [T |-> [T EXCEPT !.sector[sec_id + 1] = {data}], err |-> "none"]

\* MacGCR.add: Python raises IndexError on self.sector[sec_id] (in exists) when sec_id
\* is past the table, AssertionError when the slot is populated; else the slot is set.
add(T, sec_id, data) ==
    IF sec_id >= T.nsec THEN [T |-> T, err |-> "IndexError"]
    ELSE IF exists(T, sec_id) THEN [T |-> T, err |-> "AssertionError"]
    ELSE [T |-> [T EXCEPT !.sector[sec_id + 1] = {data}], err |-> "none"]

\* Mutation: the cylinder taken from byte 0 alone.
header_fields_no_high_bit(hdr) ==
    [sum |-> xor_all(hdr, 5), cyl |-> hdr[1], sec_id |-> hdr[2],
     side |-> hdr[3] \div 32, fmt |-> hdr[4]]

\* The identity decode_raw extracts from the 5 decoded header bytes, and their XOR.
header_fields(hdr) ==
    [sum |-> xor_all(hdr, 5),
     cyl |-> bor(hdr[1], (hdr[3] % 2) * 64),
     sec_id |-> hdr[2],
     side |-> hdr[3] \div 32,
     fmt |-> hdr[4]]

\* What the loop body reads at the sync match at bit offset sync_offs.
match_fields(T, bits, sync_offs) ==
    LET offs1 == sync_offs + 3 * 8
        sec1 == slice_bytes(bits, offs1, 5)
        hdr == decode_mac_gcr(sec1)
        offs2 == offs1 + 5 * 8
        dat_offs == search_set(bits, offs2, offs2 + 100 * 8, data_sync_bytes)
        offs3 == (CHOOSE o \in dat_offs : TRUE) + 4 * 8
        sec2 == slice_bytes(bits, offs3, enc_seclen)
    IN  [hdr_len |-> Len(sec1),
         sum |-> IF Len(sec1) = 5 THEN xor_all(hdr, 5) ELSE -1,
         cyl |-> IF Len(sec1) = 5 THEN bor(hdr[1], (hdr[3] % 2) * 64) ELSE -1,
         sec_id |-> IF Len(sec1) = 5 THEN hdr[2] ELSE -1,
         side |-> IF Len(sec1) = 5 THEN hdr[3] \div 32 ELSE -1,
         fmt |-> IF Len(sec1) = 5 THEN hdr[4] ELSE -1,
         n_dat |-> Cardinality(dat_offs),
         dat_len |-> IF Cardinality(dat_offs) = 1 THEN Len(sec2) ELSE -1,
         dec |-> IF Cardinality(dat_offs) = 1 /\ Len(sec2) = enc_seclen
                 THEN decode_mac_sector(decode_mac_gcr(sec2))
                 ELSE [sec |-> <<>>, csum |-> -1]]

\* The 'Ignoring unexpected sector' diagnostic is printed for this header.
unexpected(T, f) ==
    f.cyl # T.cyl \/ f.side # T.head \/ f.sec_id >= T.nsec \/ f.fmt # 34

\* The match at sync_offs passes every 'continue' of the loop body: five header
\* bytes XOR-ing to zero, one data sync in the window, 703 data bytes, residual zero.
valid_copy(T, bits, sync_offs) ==
    LET f == match_fields(T, bits, sync_offs)
    IN  f.hdr_len = 5 /\ f.sum = 0 /\ f.n_dat = 1 /\ f.dat_len = enc_seclen /\ f.dec.csum = 0

\* Mutation: the loop body without the test of the data checksum residual.
decode_match_no_csum(T, bits, sync_offs) ==
    LET f == match_fields(T, bits, sync_offs)
    IN  IF f.hdr_len # 5 THEN [T |-> T, err |-> "none"]
        ELSE IF f.sum # 0 THEN [T |-> T, err |-> "none"]
        ELSE IF f.n_dat # 1 THEN [T |-> T, err |-> "none"]
        ELSE IF f.dat_len # enc_seclen THEN [T |-> T, err |-> "none"]
        ELSE add(T, f.sec_id, f.dec.sec)

\* Mutation: the loop body with a 'continue' after the diagnostic.
decode_match_strict(T, bits, sync_offs) ==
    LET f == match_fields(T, bits, sync_offs)
    IN  IF f.hdr_len # 5 THEN [T |-> T, err |-> "none"]
        ELSE IF f.sum # 0 THEN [T |-> T, err |-> "none"]
        ELSE IF unexpected(T, f) THEN [T |-> T, err |-> "none"]
        ELSE IF f.n_dat # 1 THEN [T |-> T, err |-> "none"]
        ELSE IF f.dat_len # enc_seclen THEN [T |-> T, err |-> "none"]
        ELSE IF f.dec.csum # 0 THEN [T |-> T, err |-> "none"]
        ELSE add(T, f.sec_id, f.dec.sec)

\* One iteration of the loop of decode_raw below the nr_missing() test:
\* each 'continue' leaves the table alone, the last line calls add.
decode_match(T, bits, sync_offs) ==
    LET f == match_fields(T, bits, sync_offs)
    IN  IF f.hdr_len # 5 THEN [T |-> T, err |-> "none"]
        ELSE IF f.sum # 0 THEN [T |-> T, err |-> "none"]
        ELSE IF f.n_dat # 1 THEN [T |-> T, err |-> "none"]
        ELSE IF f.dat_len # enc_seclen THEN [T |-> T, err |-> "none"]
        ELSE IF f.dec.csum # 0 THEN [T |-> T, err |-> "none"]
        ELSE add(T, f.sec_id, f.dec.sec)

\* decode_raw run to its end from the i-th sync match on: the table it leaves and the
\* exception that ended it, if any.
RECURSIVE decode_from(_, _, _, _)
decode_from(T, bits, matches, i) ==
    IF i > Len(matches) THEN [T |-> T, err |-> "none"]
    ELSE IF nr_missing(T) = 0 THEN [T |-> T, err |-> "none"]
    ELSE LET r == decode_match(T, bits, matches[i])
         IN  IF r.err # "none" THEN r ELSE decode_from(r.T, bits, matches, i + 1)

decode_raw(T, bits) == decode_from(T, bits, itersearch(bits, sector_sync_bytes), 1)

(***************************************************************************)
(* The medium and the drive: what a readback of a written track returns.   *)
(* A written track is laid out as raw_track lays it out; a readback is one *)
(* or more revolutions of it, the first possibly with one media fault.     *)
(***************************************************************************)
\* Byte offsets (0-based) into the bytes of raw_track, by physical slot p = 1..nsec.
post_index_len == 64 + 20 * Len(self_sync_bytes)
frame_len == 6 * Len(self_sync_bytes) + 3 + 5 + 4 + Len(self_sync_bytes) + 3 + 1 + enc_seclen + 3
frame_base(p) == post_index_len + (p - 1) * frame_len
hdr_pos(p) == frame_base(p) + 6 * Len(self_sync_bytes) + 3
dsync_pos(p) == hdr_pos(p) + 5 + 4 + Len(self_sync_bytes)
data_pos(p) == dsync_pos(p) + 3 + 1

\* A GCR byte other than b.
other_gcr(b) == mac_gcr_table[((mac_gcr_inverse[b] + 1) % 64) + 1]

\* t with the n bytes after byte offset pos replaced by s.
overwrite(t, pos, s) ==
    [i \in 1..Len(t) |-> IF i > pos /\ i <= pos + Len(s) THEN s[i - pos] ELSE t[i]]

\* t with k bits lost at byte offset pos: what follows moves up by k bits.
slip(t, pos, k) ==
    [i \in 1..(Len(t) - 1) |-> IF i <= pos THEN t[i] ELSE byte_at(t, 8 * (i - 1) + k)]

\* The readbacks of a written track of T.nsec sectors: the media fault of the first
\* revolution (its kind, the physical slot it hits, where in the frame) and the
\* number of revolutions read.
Readbacks(T) ==
    {[kind |-> "none", slot |-> 0, arg |-> 0, revs |-> r] : r \in 1..MaxRevs}
    \cup {[kind |-> "hdr", slot |-> 1, arg |-> k, revs |-> 1] : k \in 1..5}
    \cup {[kind |-> "hdr", slot |-> 1, arg |-> 5, revs |-> r] : r \in 1..MaxRevs}
    \cup {[kind |-> "dat", slot |-> T.nsec, arg |-> j, revs |-> 1] : j \in {1, 352, enc_seclen}}
    \cup {[kind |-> "dat", slot |-> T.nsec, arg |-> enc_seclen, revs |-> r] : r \in 1..MaxRevs}
    \cup {[kind |-> "relabel", slot |-> p, arg |-> 0, revs |-> 1] : p \in 1..T.nsec}
    \cup {[kind |-> k, slot |-> 1, arg |-> 0, revs |-> 1] :
               k \in {"foreign", "format", "nosync", "dupsync"}}
    \cup {[kind |-> "slip", slot |-> 1, arg |-> 3, revs |-> 1]}
    \cup {[kind |-> "cut", slot |-> T.nsec, arg |-> a, revs |-> 1] : a \in {3, 300}}

NoReadback == [kind |-> "none", slot |-> 0, arg |-> 0, revs |-> 0]

\* The faultless readbacks.
CleanReadbacks == {[kind |-> "none", slot |-> 0, arg |-> 0, revs |-> r] : r \in 1..MaxRevs}

\* One revolution t of the track written from T, read with fault f.
faulted(T, t, f) ==
    LET p == f.slot
        id == T.sec_map[p]
    IN  CASE f.kind = "none" -> t
          \* one encoded header byte read as another GCR byte
          [] f.kind = "hdr" ->
                [t EXCEPT ![hdr_pos(p) + f.arg] = other_gcr(t[hdr_pos(p) + f.arg])]
          \* one encoded data byte read as another GCR byte
          [] f.kind = "dat" ->
                [t EXCEPT ![data_pos(p) + f.arg] = other_gcr(t[data_pos(p) + f.arg])]
          \* a well-formed header naming the next sector id (past the table for the last id)
          [] f.kind = "relabel" ->
                overwrite(t, hdr_pos(p), encode_mac_gcr(header_bytes(T.cyl, T.head, id + 1)))
          \* a well-formed header of another cylinder and head
          [] f.kind = "foreign" ->
                overwrite(t, hdr_pos(p), encode_mac_gcr(header_bytes(T.cyl + 1, 1 - T.head, id)))
          \* a well-formed header with another format byte
          [] f.kind = "format" ->
                LET h == header_bytes(T.cyl, T.head, id)
                IN  overwrite(t, hdr_pos(p),
                              encode_mac_gcr(<<h[1], h[2], h[3], 35, bxor(h[5], bxor(h[4], 35))>>))
          \* the data sync unreadable
          [] f.kind = "nosync" -> [t EXCEPT ![dsync_pos(p) + 3] = 255]
          \* a second data sync inside the search window
          [] f.kind = "dupsync" -> overwrite(t, data_pos(p) + 20, data_sync_bytes)
          \* bits lost in the gap before the first frame
          [] f.kind = "slip" -> slip(t, 70, f.arg)
          \* the revolution ends early: in the header (arg 3) or in the data (arg 300)
          [] f.kind = "cut" ->
                SubSeq(t, 1, IF f.arg < 5 THEN hdr_pos(p) + f.arg ELSE data_pos(p) + f.arg)

\* The readback f of the written track t: f.revs revolutions, the first with the fault.
readback(T, t, f) == faulted(T, t, f) \o rep(t, f.revs - 1)

\* The image files given to set_img_track for a track of nsec sectors.
ramp_image(nsec) == [i \in 1..(nsec * 512) |-> (7 * i + 3 + 5 * ((i - 1) \div 512)) % 256]
Images(nsec) == {<<>>, SubSeq(ramp_image(nsec), 1, 300), ramp_image(nsec)}

\* The tracks of the disk: cylinder, head and the format of that zone. Outer zones
\* hold more sectors; the clocks (whole microseconds) are long enough for a
\* revolution of 0.2 s to hold a few sectors only.
zone_clock(n) == IF n = 1 THEN 12 ELSE IF n = 2 THEN 16 ELSE IF n = 3 THEN 10 ELSE 7
zone_track(n) ==
    [cyl |-> 35 * (n - 1), head |-> (n - 1) % 2, config |-> format_of(n, zone_clock(n), 2)]
DiskTracks == {zone_track(n) : n \in 1..MaxSecs}

(***************************************************************************)
(* State.                                                                  *)
(***************************************************************************)
VARIABLES
    cfg,        \* a MacGCRTrackFormat being set up
    built,      \* what the last mk_track on cfg returned: {} or {table}
    cfg_err,    \* the exception of the last call on cfg, "none" if it returned
    cfg_op,     \* the last call on cfg
    trk,        \* the MacGCR that is imported into and encoded
    rb,         \* the MacGCR that is decoded into
    flux,       \* the bit sequence read back from the drive (bytes)
    rdb,        \* how the drive read it: the fault and the number of revolutions
    phase,      \* where the track's processing stands
    stage,      \* 1: trk holds an image; 2: trk holds what was decoded
    matches,    \* decode_raw: the sync offsets itersearch yields
    idx,        \* decode_raw: the index of the next one
    err,        \* the exception that ended decode_raw, "none" if none
    vres,       \* what verify_track returned
    img,        \* the image given to set_img_track and what the call returned
    tdat_out,   \* what get_img_track returned
    h_cyl, h_head, h_sec_id, h_enc, h_got, h_pc,  \* one header, built and read back
    m_nsec, m_interleave, m_sec_map, m_pos, m_i, m_pc  \* MacGCR.__init__ in steps

cfg_vars == <<cfg, built, cfg_err, cfg_op>>
trk_vars == <<trk, rb, flux, rdb, phase, stage, matches, idx, err, vres, img, tdat_out>>
map_vars == <<m_nsec, m_interleave, m_sec_map, m_pos, m_i, m_pc>>
hdr_vars == <<h_cyl, h_head, h_sec_id, h_enc, h_got, h_pc>>
vars == <<cfg, built, cfg_err, cfg_op,
          trk, rb, flux, rdb, phase, stage, matches, idx, err, vres, img, tdat_out,
          m_nsec, m_interleave, m_sec_map, m_pos, m_i, m_pc,
          h_cyl, h_head, h_sec_id, h_enc, h_got, h_pc>>

CfgInit == cfg = MacGCRTrackFormat /\ built = {} /\ cfg_err = "none" /\ cfg_op = "none"

HdrIdle ==
    /\ h_cyl = 0 /\ h_head = 0 /\ h_sec_id = 0
    /\ h_enc = <<>> /\ h_got = <<>> /\ h_pc = "idle"

NoImage == [tdat |-> <<>>, ret |-> -1]

MapIdle ==
    /\ m_nsec = 0 /\ m_interleave = 0 /\ m_sec_map = <<>>
    /\ m_pos = 0 /\ m_i = 0 /\ m_pc = "idle"

\* A track of the disk has been built: mk_track(cyl, head) on its zone's format.
TrkInit ==
    \E d \in DiskTracks :
        /\ trk = MacGCR(d.cyl, d.head, d.config)
        /\ rb = MacGCR(d.cyl, d.head, d.config)
        /\ flux = <<>> /\ rdb = NoReadback /\ phase = "made" /\ stage = 1
        /\ matches = <<>> /\ idx = 0 /\ err = "none" /\ vres = "unset"
        /\ img = NoImage /\ tdat_out = <<>>

Init == CfgInit /\ TrkInit /\ MapIdle /\ HdrIdle

(***************************************************************************)
(* The track operations.                                                   *)
(***************************************************************************)
\* trk.set_img_track(tdat)
SetImgTrack(imgs) ==
    /\ phase = "made"
    /\ \E tdat \in imgs :
          /\ trk' = set_img_track(trk, tdat)
          /\ img' = [tdat |-> tdat, ret |-> set_img_track_ret(trk, tdat)]
    /\ phase' = "filled"
    /\ UNCHANGED <<rb, flux, rdb, stage, matches, idx, err, vres, tdat_out>>
    /\ UNCHANGED cfg_vars /\ UNCHANGED map_vars /\ UNCHANGED hdr_vars

\* trk.raw_track() is written and read back. Faults are injected into the readback
\* of an imported track; an empty or a copied one is read back once, faultless.
WriteRead(readbacks) ==
    /\ phase \in {"made", "filled"}
    /\ LET t == raw_track(trk)
       IN  \E f \in readbacks :
              /\ (stage = 2 \/ phase = "made") => (f.kind = "none" /\ f.revs = 1)
              /\ flux' = readback(trk, t, f)
              /\ rdb' = f
    /\ phase' = "flux"
    /\ UNCHANGED <<trk, rb, stage, matches, idx, err, vres, img, tdat_out>>
    /\ UNCHANGED cfg_vars /\ UNCHANGED map_vars /\ UNCHANGED hdr_vars

\* rb.decode_raw(flux) is entered: the sync matches of the bit sequence.
DecodeBegin ==
    /\ phase = "flux"
    /\ matches' = itersearch(flux, sector_sync_bytes)
    /\ idx' = 1 /\ err' = "none"
    /\ phase' = "loop"
    /\ UNCHANGED <<trk, rb, flux, rdb, stage, vres, img, tdat_out>>
    /\ UNCHANGED cfg_vars /\ UNCHANGED map_vars /\ UNCHANGED hdr_vars

\* rb.decode_raw(flux) is called again on the table it has decoded into.
DecodeAgain ==
    /\ phase = "done"
    /\ matches' = itersearch(flux, sector_sync_bytes)
    /\ idx' = 1 /\ err' = "none"
    /\ phase' = "loop"
    /\ UNCHANGED <<trk, rb, flux, rdb, stage, vres, img, tdat_out>>
    /\ UNCHANGED cfg_vars /\ UNCHANGED map_vars /\ UNCHANGED hdr_vars

\* Mutation: the loop without its test of nr_missing().
DecodeStep_no_break ==
    /\ phase = "loop"
    /\ IF idx > Len(matches)
       THEN /\ phase' = "done"
            /\ UNCHANGED <<rb, idx, err>>
       ELSE LET r == decode_match(rb, flux, matches[idx])
            IN  /\ rb' = r.T
                /\ err' = r.err
                /\ idx' = idx + 1
                /\ phase' = IF r.err = "none" THEN "loop" ELSE "raised"
    /\ UNCHANGED <<trk, flux, rdb, stage, matches, vres, img, tdat_out>>
    /\ UNCHANGED cfg_vars /\ UNCHANGED map_vars /\ UNCHANGED hdr_vars

\* One iteration of the loop of decode_raw, or its end.
DecodeStep ==
    /\ phase = "loop"
    /\ IF idx > Len(matches) \/ nr_missing(rb) = 0
       THEN /\ phase' = "done"
            /\ UNCHANGED <<rb, idx, err>>
       ELSE LET r == decode_match(rb, flux, matches[idx])
            IN  /\ rb' = r.T
                /\ err' = r.err
                /\ idx' = idx + 1
                /\ phase' = IF r.err = "none" THEN "loop" ELSE "raised"
    /\ UNCHANGED <<trk, flux, rdb, stage, matches, vres, img, tdat_out>>
    /\ UNCHANGED cfg_vars /\ UNCHANGED map_vars /\ UNCHANGED hdr_vars

\* trk.get_img_track()
GetImgTrack ==
    /\ phase \in {"made", "filled"}
    /\ tdat_out' = get_img_track(trk)
    /\ phase' = "exported"
    /\ UNCHANGED <<trk, rb, flux, rdb, stage, matches, idx, err, vres, img>>
    /\ UNCHANGED cfg_vars /\ UNCHANGED map_vars /\ UNCHANGED hdr_vars

\* trk.verify_track(flux)
VerifyTrack ==
    /\ phase = "flux"
    /\ vres' = IF verify_track(trk, flux) THEN "ok" ELSE "failed"
    /\ phase' = "verified"
    /\ UNCHANGED <<trk, rb, flux, rdb, stage, matches, idx, err, img, tdat_out>>
    /\ UNCHANGED cfg_vars /\ UNCHANGED map_vars /\ UNCHANGED hdr_vars

\* The decoded table becomes the one that is encoded (a disk is copied), with a
\* fresh table of the same track to decode into.
Promote ==
    /\ phase \in {"done", "raised"} /\ stage = 1
    /\ trk' = rb
    /\ rb' = MacGCR(rb.cyl, rb.head, rb.config)
    /\ stage' = 2 /\ phase' = "filled"
    /\ flux' = <<>> /\ rdb' = NoReadback /\ matches' = <<>> /\ idx' = 0 /\ err' = "none"
    /\ UNCHANGED <<vres, img, tdat_out>>
    /\ UNCHANGED cfg_vars /\ UNCHANGED map_vars /\ UNCHANGED hdr_vars

\* The write path: import an image, write, read back, decode, verify.
Next ==
    \/ SetImgTrack(Images(trk.nsec))
    \/ WriteRead(CleanReadbacks)
    \/ DecodeBegin
    \/ DecodeStep
    \/ VerifyTrack
    \/ GetImgTrack
    \/ DecodeAgain

Spec == Init /\ [][Next]_vars

\* The read path: a written disk is read with media faults, decoded and copied.
NextRead ==
    \/ SetImgTrack({ramp_image(trk.nsec)})
    \/ WriteRead(Readbacks(trk))
    \/ DecodeBegin
    \/ DecodeStep
    \/ Promote
    \/ VerifyTrack
    \/ GetImgTrack

SpecRead == Init /\ [][NextRead]_vars

(***************************************************************************)
(* The Track Configuration's operations (MacGCRTrackFormat).               *)
(***************************************************************************)
\* The tables built so far hold a reference to the configuration, not a copy.
rebind(tables, config) == {[T EXCEPT !.config = config] : T \in tables}

\* cfg.add_param(key, val)
AddParam(key, val) ==
    /\ cfg' = CASE key = "secs" -> [cfg EXCEPT !.secs = {val}]
                [] key = "clock" -> [cfg EXCEPT !.clock = {val}]
                [] key = "interleave" -> [cfg EXCEPT !.interleave = val]
                [] OTHER -> cfg
    /\ cfg_err' = IF key \in {"secs", "clock", "interleave"} THEN "none" ELSE "Fatal"
    /\ cfg_op' = "add_param"
    /\ built' = rebind(built, cfg')
    /\ UNCHANGED trk_vars /\ UNCHANGED map_vars /\ UNCHANGED hdr_vars

\* Mutation: finalise checking secs only.
Finalise_secs_only ==
    /\ IF cfg.finalised THEN cfg' = cfg /\ cfg_err' = "none"
       ELSE IF cfg.secs = {} THEN cfg' = cfg /\ cfg_err' = "Fatal"
       ELSE cfg' = [cfg EXCEPT !.finalised = TRUE] /\ cfg_err' = "none"
    /\ cfg_op' = "finalise"
    /\ built' = rebind(built, cfg')
    /\ UNCHANGED trk_vars /\ UNCHANGED map_vars /\ UNCHANGED hdr_vars

\* cfg.finalise()
Finalise ==
    /\ IF cfg.finalised THEN cfg' = cfg /\ cfg_err' = "none"
       ELSE IF cfg.secs = {} \/ cfg.clock = {} THEN cfg' = cfg /\ cfg_err' = "Fatal"
       ELSE cfg' = [cfg EXCEPT !.finalised = TRUE] /\ cfg_err' = "none"
    /\ cfg_op' = "finalise"
    /\ built' = rebind(built, cfg')
    /\ UNCHANGED trk_vars /\ UNCHANGED map_vars /\ UNCHANGED hdr_vars

\* cfg.mk_track(cyl, head): [None] * self.nsec raises TypeError when secs is None.
MkTrack(cyl, head) ==
    /\ IF cfg.secs = {} THEN built' = {} /\ cfg_err' = "TypeError"
       ELSE built' = {MacGCR(cyl, head, cfg)} /\ cfg_err' = "none"
    /\ cfg_op' = "mk_track"
    /\ UNCHANGED cfg
    /\ UNCHANGED trk_vars /\ UNCHANGED map_vars /\ UNCHANGED hdr_vars

\* The values the format parser hands to add_param.
ParamValues(key) ==
    CASE key = "secs" -> 1..MaxSecs
      [] key = "clock" -> {10, 16}
      [] OTHER -> 1..MaxInterleave

NextCfg ==
    \/ \E key \in {"secs", "clock", "interleave", "bogus"} :
          \E val \in ParamValues(key) : AddParam(key, val)
    \/ Finalise
    \/ \E d \in DiskTracks : MkTrack(d.cyl, d.head)

SpecCfg == Init /\ [][NextCfg]_vars

(***************************************************************************)
(* MacGCR.__init__ lines 49-55, statement by statement.                    *)
(***************************************************************************)
MapInit ==
    /\ m_nsec \in 1..MaxMapSecs
    /\ m_interleave \in 1..MaxMapStride
    /\ m_sec_map = [p \in 1..m_nsec |-> -1]
    /\ m_pos = 0 /\ m_i = 0 /\ m_pc = "for"

\* for i in range(self.nsec)
MapFor ==
    /\ m_pc = "for"
    /\ m_pc' = IF m_i < m_nsec THEN "while" ELSE "done"
    /\ UNCHANGED <<m_nsec, m_interleave, m_sec_map, m_pos, m_i>>
    /\ UNCHANGED cfg_vars /\ UNCHANGED trk_vars /\ UNCHANGED hdr_vars

\* while sec_map[pos] != -1: pos = (pos + 1) % self.nsec
MapWhile ==
    /\ m_pc = "while"
    /\ m_sec_map[m_pos + 1] # -1
    /\ m_pos' = (m_pos + 1) % m_nsec
    /\ UNCHANGED <<m_nsec, m_interleave, m_sec_map, m_i, m_pc>>
    /\ UNCHANGED cfg_vars /\ UNCHANGED trk_vars /\ UNCHANGED hdr_vars

\* Mutation: after a placement the position moves on by one, not by the stride.
MapPlace_step_one ==
    /\ m_pc = "while"
    /\ m_sec_map[m_pos + 1] = -1
    /\ m_sec_map' = [m_sec_map EXCEPT ![m_pos + 1] = m_i]
    /\ m_pos' = (m_pos + 1) % m_nsec
    /\ m_i' = m_i + 1
    /\ m_pc' = "for"
    /\ UNCHANGED <<m_nsec, m_interleave>>
    /\ UNCHANGED cfg_vars /\ UNCHANGED trk_vars /\ UNCHANGED hdr_vars

\* Mutation: the entry is assigned without the while loop's test of it.
MapPlace_untested ==
    /\ m_pc = "while"
    /\ m_sec_map' = [m_sec_map EXCEPT ![m_pos + 1] = m_i]
    /\ m_pos' = (m_pos + m_interleave) % m_nsec
    /\ m_i' = m_i + 1
    /\ m_pc' = "for"
    /\ UNCHANGED <<m_nsec, m_interleave>>
    /\ UNCHANGED cfg_vars /\ UNCHANGED trk_vars /\ UNCHANGED hdr_vars

\* sec_map[pos] = i; pos = (pos + config.interleave) % self.nsec
MapPlace ==
    /\ m_pc = "while"
    /\ m_sec_map[m_pos + 1] = -1
    /\ m_sec_map' = [m_sec_map EXCEPT ![m_pos + 1] = m_i]
    /\ m_pos' = (m_pos + m_interleave) % m_nsec
    /\ m_i' = m_i + 1
    /\ m_pc' = "for"
    /\ UNCHANGED <<m_nsec, m_interleave>>
    /\ UNCHANGED cfg_vars /\ UNCHANGED trk_vars /\ UNCHANGED hdr_vars

NextMap == MapFor \/ MapWhile \/ MapPlace

\* The constructor runs to its end: no statement of it waits on anything.
InitMap == CfgInit /\ TrkInit /\ MapInit /\ HdrIdle
SpecMap == InitMap /\ [][NextMap]_vars /\ WF_vars(NextMap)

(***************************************************************************)
(* One sector header: built and encoded as raw_track does, decoded and     *)
(* taken apart as decode_raw does.                                         *)
(***************************************************************************)
\* Sector ids a header is built for.
HdrSecIds == {0, 1, 11, 63, 64}

HdrInit ==
    /\ h_cyl \in 0..MaxCyl /\ h_head \in 0..MaxHead /\ h_sec_id \in HdrSecIds
    /\ h_enc = <<>> /\ h_got = <<>> /\ h_pc = "build"

\* raw_track: optimised.encode_mac_gcr(hdr + bytes([sum]))
HdrBuild ==
    /\ h_pc = "build"
    /\ h_enc' = encode_mac_gcr(header_bytes(h_cyl, h_head, h_sec_id))
    /\ h_pc' = "built"
    /\ UNCHANGED <<h_cyl, h_head, h_sec_id, h_got>>
    /\ UNCHANGED cfg_vars /\ UNCHANGED trk_vars /\ UNCHANGED map_vars

\* decode_raw: hdr = optimised.decode_mac_gcr(sec) and the fields taken from it
HdrRead ==
    /\ h_pc = "built"
    /\ h_got' = header_fields(decode_mac_gcr(h_enc))
    /\ h_pc' = "read"
    /\ UNCHANGED <<h_cyl, h_head, h_sec_id, h_enc>>
    /\ UNCHANGED cfg_vars /\ UNCHANGED trk_vars /\ UNCHANGED map_vars

NextHdr == HdrBuild \/ HdrRead

InitHdr == CfgInit /\ TrkInit /\ MapIdle /\ HdrInit
SpecHdr == InitHdr /\ [][NextHdr]_vars

(***************************************************************************)
(* Properties.                                                             *)
(***************************************************************************)
\* C1: a fully populated table, encoded by raw_track and decoded from a faultless
\* readback into a fresh table of the same track, is recovered whole: the decode ends
\* without an exception, nothing is missing and every slot equals the source slot.
C1_RoundTrip ==
    (phase \in {"done", "raised"} /\ nr_missing(trk) = 0 /\ rdb.kind = "none")
        => (err = "none" /\ nr_missing(rb) = 0 /\ rb.sector = trk.sector)

\* A track of several sectors with differing contents, laid out interleaved, has been
\* encoded and decoded back.
C1_RoundTrip_Witness ==
    /\ phase = "done" /\ rdb.kind = "none" /\ rdb.revs = 1
    /\ trk.nsec >= 3 /\ trk.sec_map # [p \in 1..trk.nsec |-> p - 1]
    /\ nr_missing(trk) = 0 /\ trk.sector[1] # trk.sector[2]
    /\ rb.sector = trk.sector

\* C2: verify_track answers success exactly when the readback it is given, decoded
\* into a fresh table of the same track, has nothing missing and equals the source
\* table slot for slot.
C2_VerifyRedecodes ==
    phase = "verified" =>
        LET d == decode_raw(MacGCR(trk.cyl, trk.head, trk.config), flux)
        IN  (vres = "ok") <=>
                (d.err = "none" /\ nr_missing(d.T) = 0 /\ d.T.sector = trk.sector)

\* C3: a decode of more than one revolution ends without an exception, and every
\* sector id of the table that has a fully valid copy in the bit sequence is present.
C3_MultiRevRecovery ==
    (phase \in {"done", "raised"} /\ rdb.revs > 1) =>
        /\ err = "none"
        /\ \A i \in 1..Len(matches) :
              (/\ valid_copy(rb, flux, matches[i])
               /\ match_fields(rb, flux, matches[i]).sec_id < rb.nsec)
                  => exists(rb, match_fields(rb, flux, matches[i]).sec_id)

\* C4: no step of decode_raw changes a slot that holds a buffer.
C4_StoreOnce ==
    [][phase = "loop" =>
          \A s \in 1..rb.nsec : rb.sector[s] # {} => rb'.sector[s] = rb.sector[s]]_vars

\* The decoder met a valid copy for a slot that already held another buffer (a frame
\* relabelled with its neighbour's id) and the slot was left as it was.
C4_StoreOnce_Witness ==
    /\ phase = "raised" /\ err = "AssertionError" /\ rdb.kind = "relabel"
    /\ LET f == match_fields(rb, flux, matches[idx - 1])
       IN  /\ valid_copy(rb, flux, matches[idx - 1])
           /\ f.sec_id < rb.nsec
           /\ rb.sector[f.sec_id + 1] # {}
           /\ rb.sector[f.sec_id + 1] # {f.dec.sec}

\* C5: a match that passes every check but names a sector id past the table changes
\* nothing and does not end the decode: the loop goes on to the next sync match.
C5_OutOfRangeIgnored ==
    [][(/\ phase = "loop" /\ idx <= Len(matches) /\ nr_missing(rb) # 0
        /\ valid_copy(rb, flux, matches[idx])
        /\ match_fields(rb, flux, matches[idx]).sec_id >= rb.nsec)
          => (phase' = "loop" /\ err' = "none" /\ rb' = rb /\ idx' = idx + 1)]_vars

\* C6: a step of decode_raw changes the table only for a match whose header XOR and
\* data residual are both zero; a match with a nonzero header XOR or residual leaves
\* the table as it is and the loop goes on to the next sync match.
C6_StoredOnlyIfChecked ==
    [][(phase = "loop" /\ idx <= Len(matches) /\ nr_missing(rb) # 0) =>
          LET f == match_fields(rb, flux, matches[idx])
          IN  /\ rb' # rb => (f.sum = 0 /\ f.dec.csum = 0)
              /\ (f.sum # 0 \/ f.dec.csum # 0)
                    => (rb' = rb /\ phase' = "loop" /\ err' = "none" /\ idx' = idx + 1)]_vars

\* The loop has gone past a frame whose header is good and whose data block, one
\* byte of it corrupted, has a nonzero residual; its sector is still missing.
C6_StoredOnlyIfChecked_Witness ==
    /\ phase = "loop" /\ idx > 1 /\ rdb.kind = "dat"
    /\ LET f == match_fields(rb, flux, matches[idx - 1])
       IN  /\ f.sum = 0 /\ f.n_dat = 1 /\ f.dat_len = enc_seclen /\ f.dec.csum > 0
           /\ f.sec_id < rb.nsec /\ ~exists(rb, f.sec_id)

\* C7: the construction of the Interleave Map ends, for every sector count and
\* stride, and the map it ends with holds every id of 0..nsec-1 at exactly one
\* position (so no -1 is left); it is the map MacGCR(cyl, head, config) carries.
C7_InterleaveBijection ==
    /\ <>(m_pc = "done")
    /\ [](m_pc = "done" =>
            /\ Len(m_sec_map) = m_nsec
            /\ \A id \in 0..(m_nsec - 1) :
                  Cardinality({p \in 1..m_nsec : m_sec_map[p] = id}) = 1
            /\ m_sec_map = make_sec_map(m_nsec, m_interleave))

\* The construction has ended for a stride that shares a factor with the sector
\* count, where positions collide and the while loop has to step on.
C7_InterleaveBijection_Witness ==
    /\ m_pc = "done" /\ m_nsec = 6 /\ m_interleave = 4
    /\ m_sec_map = <<0, 3, 2, 5, 1, 4>>

\* C8: the bit sequence raw_track produces is the nominal bit count of one rotation,
\* int(0.2 / clock) rounded down to a multiple of 32, whichever sectors are present.
C8_FixedLength ==
    (phase = "flux" /\ rdb.kind = "none" /\ rdb.revs = 1) =>
        nbits(flux) = ((time_per_rev_us \div (CHOOSE c \in trk.clock : TRUE)) \div 32) * 32

\* C9: mk_track returns a table only on a finalised configuration.
C9_BuildRequiresFinalised == built # {} => cfg.finalised

\* C10: no call on a finalised configuration changes secs, clock or interleave.
C10_ImmutableOnceFinalised ==
    [][cfg.finalised =>
          (cfg'.secs = cfg.secs /\ cfg'.clock = cfg.clock
           /\ cfg'.interleave = cfg.interleave)]_vars

\* C11: set_img_track followed by get_img_track returns the image given, followed by
\* zero bytes up to nsec * 512 when the image was shorter; the import leaves nothing
\* missing and returns nsec * 512.
C11_LinearImageRoundTrip ==
    (stage = 1 /\ img # NoImage /\ phase \in {"filled", "exported"}) =>
        /\ nr_missing(trk) = 0
        /\ img.ret = trk.nsec * 512
        /\ phase = "exported" =>
              tdat_out = img.tdat \o zero_bytes(trk.nsec * 512 - Len(img.tdat))

\* An image shorter than the track, ending inside the first sector, was imported
\* into a track of several sectors and exported again.
C11_LinearImageRoundTrip_Witness ==
    /\ phase = "exported" /\ stage = 1 /\ trk.nsec >= 2
    /\ Len(img.tdat) > 0 /\ Len(img.tdat) < 512
    /\ Len(tdat_out) = trk.nsec * 512
    /\ SubSeq(tdat_out, 1, Len(img.tdat)) = img.tdat

\* C12: get_img_track returns nsec * 512 bytes: for each logical id in order, the
\* 16-byte marker 32 times over if the slot is missing, bytes 12..523 of its buffer
\* if it is present.
C12_ExportSpans ==
    phase = "exported" =>
        /\ Len(tdat_out) = trk.nsec * 512
        /\ \A s \in 1..trk.nsec :
              SubSeq(tdat_out, (s - 1) * 512 + 1, s * 512)
                 = IF trk.sector[s] = {} THEN rep(bad_sector_marker, 32)
                   ELSE SubSeq(CHOOSE b \in trk.sector[s] : TRUE, 13, 524)

\* A table decoded from a faulty readback, with a sector missing and another one
\* present, was exported.
C12_ExportSpans_Witness ==
    /\ phase = "exported" /\ stage = 2
    /\ nr_missing(trk) > 0 /\ nr_missing(trk) < trk.nsec

\* C13: a finalise call returns without error exactly when secs and clock are both
\* set; then the configuration is finalised. When it raises, the configuration is as
\* before and not finalised; on a finalised configuration it returns and changes
\* nothing.
C13_FinaliseIff ==
    [][cfg_op' = "finalise" =>
          /\ (cfg_err' = "none") <=> (cfg.secs # {} /\ cfg.clock # {})
          /\ cfg_err' = "none" => (cfg'.finalised /\ cfg' = [cfg EXCEPT !.finalised = TRUE])
          /\ cfg_err' # "none" => (cfg_err' = "Fatal" /\ cfg' = cfg /\ ~cfg'.finalised)
          /\ cfg.finalised => (cfg' = cfg /\ cfg_err' = "none")]_vars

\* finalise was refused on a configuration whose secs is set and whose clock is not.
C13_FinaliseIff_Witness ==
    /\ cfg_op = "finalise" /\ cfg_err = "Fatal"
    /\ cfg.secs # {} /\ cfg.clock = {} /\ ~cfg.finalised

\* C14: a slot that holds 524 zero bytes is present: exists and has_sec answer true,
\* nr_missing does not count it, the frame raw_track emits for it carries the zero
\* bytes (and they decode back), and get_img_track emits 512 zero bytes for it. A
\* slot is missing exactly when nothing was stored in it.
C14_ZeroIsPresent ==
    /\ \A s \in 1..trk.nsec : (trk.sector[s] = {}) <=> ~has_sec(trk, s - 1)
    /\ \A s \in 1..trk.nsec :
          trk.sector[s] = {[i \in 1..524 |-> 0]} =>
              /\ exists(trk, s - 1) /\ has_sec(trk, s - 1)
              /\ nr_missing(trk) <= trk.nsec - Cardinality({q \in 1..trk.nsec :
                                                     trk.sector[q] = {[i \in 1..524 |-> 0]}})
              /\ (phase = "flux" /\ rdb.kind = "none") =>
                    LET p == CHOOSE q \in 1..trk.nsec : trk.sec_map[q] = s - 1
                        enc == SubSeq(flux, data_pos(p) + 1, data_pos(p) + 703)
                    IN  decode_mac_sector(decode_mac_gcr(enc))
                            = [sec |-> [i \in 1..524 |-> 0], csum |-> 0]
              /\ phase = "done" => rb.sector[s] = {[i \in 1..524 |-> 0]}
              /\ phase = "exported" =>
                    SubSeq(tdat_out, (s - 1) * 512 + 1, s * 512) = [i \in 1..512 |-> 0]

\* A track of several sectors, every one of them all zero, has been encoded and
\* decoded back.
C14_ZeroIsPresent_Witness ==
    /\ phase = "done" /\ trk.nsec >= 2 /\ nr_missing(trk) = 0
    /\ \A s \in 1..trk.nsec : trk.sector[s] = {[i \in 1..524 |-> 0]}
    /\ rb.sector = trk.sector

\* C15: a match that passes the header checksum, the data sync test and the data
\* checksum, for a slot of the table that is populated while another is missing,
\* ends decode_raw with AssertionError and leaves the table as it is; after the
\* exception no further match is processed.
C15_DuplicateStoreFatal ==
    [][/\ (/\ phase = "loop" /\ idx <= Len(matches) /\ nr_missing(rb) # 0
           /\ valid_copy(rb, flux, matches[idx])
           /\ match_fields(rb, flux, matches[idx]).sec_id < rb.nsec
           /\ exists(rb, match_fields(rb, flux, matches[idx]).sec_id))
             => (phase' = "raised" /\ err' = "AssertionError" /\ rb' = rb)
       /\ phase = "raised" => phase' \notin {"loop", "done"}]_vars

\* A second revolution brought a valid copy of a stored sector while another sector
\* was missing: the decode has ended with matches left unprocessed.
C15_DuplicateStoreFatal_Witness ==
    /\ phase = "raised" /\ err = "AssertionError" /\ rdb.revs = 2
    /\ nr_missing(rb) > 0 /\ idx <= Len(matches)
    /\ exists(rb, match_fields(rb, flux, matches[idx - 1]).sec_id)

C17_PlacementRule ==
    m_pc = "done" =>
        LET n == m_nsec
            at(q) == m_sec_map[(q % n) + 1]
            pos(i) == (CHOOSE p \in 1..n : m_sec_map[p] = i) - 1
        IN  /\ pos(0) = 0
            /\ \A i \in 0..(n - 2) :
                  LET start == pos(i) + m_interleave
                      d == CHOOSE k \in 0..(n - 1) :
                              at(start + k) > i /\ \A j \in 0..(k - 1) : at(start + j) <= i
                  IN  pos(i + 1) = (start + d) % n
            /\ (n = 12 /\ m_interleave = 2)
                  => m_sec_map = <<0, 6, 1, 7, 2, 8, 3, 9, 4, 10, 5, 11>>
            /\ (n = trk.nsec /\ m_interleave = trk.config.interleave)
                  => \A p \in 1..n :
                        decode_mac_gcr(SubSeq(raw_track(trk), hdr_pos(p) + 1, hdr_pos(p) + 5))[2]
                            = m_sec_map[p]

\* The construction has ended for 12 sectors and stride 2.
C17_PlacementRule_Witness ==
    /\ m_pc = "done" /\ m_nsec = 12 /\ m_interleave = 2
    /\ m_sec_map[2] = 6 /\ m_sec_map[12] = 11

\* C18: when the loop of decode_raw finds nothing missing it ends there: no slot
\* changes, no exception is raised and no further match is looked at, whatever the
\* rest of the bit sequence holds.
C18_EarlyExit ==
    [][(phase = "loop" /\ nr_missing(rb) = 0)
          => (rb' = rb /\ err' = "none" /\ phase' = "done" /\ idx' = idx)]_vars

\* decode_raw was called on a table that was complete on entry, over a bit sequence
\* whose first frame is a valid copy of a stored sector, and has returned.
C18_EarlyExit_Witness ==
    /\ phase = "done" /\ idx = 1 /\ err = "none" /\ Len(matches) >= 2
    /\ nr_missing(rb) = 0 /\ rb.sector = trk.sector
    /\ valid_copy(rb, flux, matches[1])
    /\ exists(rb, match_fields(rb, flux, matches[1]).sec_id)

C20_MissingMaterialised ==
    /\ (phase \in {"done", "raised"} /\ rdb.kind = "none" /\ nr_missing(trk) > 0) =>
          /\ err = "none" /\ nr_missing(rb) = 0
          /\ \A s \in 1..trk.nsec :
                rb.sector[s] = IF trk.sector[s] = {}
                               THEN {[i \in 1..12 |-> 0] \o rep(bad_sector_marker, 32)}
                               ELSE trk.sector[s]
          /\ rb.sector # trk.sector
    /\ (phase = "verified" /\ nr_missing(trk) > 0) => vres = "failed"

\* A table with one sector present and another missing (what a faulty readback
\* left) has been encoded and decoded: nothing is missing in the decoded table.
C20_MissingMaterialised_Witness ==
    /\ phase = "done" /\ stage = 2 /\ rdb.kind = "none"
    /\ nr_missing(trk) > 0 /\ nr_missing(trk) < trk.nsec
    /\ nr_missing(rb) = 0 /\ err = "none"

====
